---- MODULE Spec2Model ----
(***************************************************************************)
(* State-machine model of pyxem's indexation generators                    *)
(* (src/pyxem/generators/indexation_generator.py).                         *)
(*                                                                         *)
(*   Spec         IndexationGenerator.correlate: the template matcher      *)
(*                mapped over the navigation grid.                         *)
(*   SpecProfile  ProfileIndexationGenerator.index_peaks, called on two    *)
(*                generators that share a simulation.                      *)
(*   SpecVector   VectorIndexationGenerator.index_vectors, called twice    *)
(*                on one generator, the second time with thresholds no     *)
(*                tighter than the first.                                  *)
(*   SpecPair     correlate called on two generators that share the        *)
(*                library, the parameters, the mask and the grid.          *)
(*   SpecConfig   correlate called with a configuration error.             *)
(*   SpecCalls    calls of the three generators, interleaved.              *)
(*                                                                         *)
(* and of the signal class Diffraction2D                                   *)
(* (src/pyxem/signals/diffraction2d.py):                                   *)
(*                                                                         *)
(*   SpecAzimuthal   get_azimuthal_integral1d and get_azimuthal_integral2d *)
(*                   called on one signal with the same arguments.         *)
(*   SpecBackground  remove_background.                                    *)
(*                                                                         *)
(* The per-position matchers (correlate_library, match_vectors) and the    *)
(* axis transfer live in pyxem.utils, which is not part of the sources     *)
(* modelled here; their definitions follow the design document and are     *)
(* marked as such where they are defined.                                  *)
(***************************************************************************)
EXTENDS Integers, Sequences, FiniteSets, TLC

VARIABLES
    \* ---- IndexationGenerator (template matching)
    signal,            \* self.signal: [shape, data], data in flat navigation order
    navigation_axes,   \* signal.axes_manager.navigation_axes, one per dimension
    library,           \* self.library: sequence of phases, in iteration order
    n_largest,         \* correlate(n_largest=...)
    keys,              \* correlate(keys=...)
    mask,              \* correlate(mask=...): "None" or [shape, data]
    pc,                \* position of the correlate call
    maskSig,           \* the local `mask` after lines 91-94
    pending,           \* navigation positions map() has not processed yet
    matches,           \* map()'s output, by navigation position
    completed,         \* the positions map() has processed, in completion order
    invoked,           \* positions at which the mapped function was called
    scored,            \* positions at which correlation scores were computed
    matching_results,  \* the returned object, None until the return
    \* ---- a second IndexationGenerator: another signal on the same grid,
    \* ---- correlated with the same library, n_largest, keys and mask
    other_signal,      \* self.signal of the second generator
    other_pc,          \* position of its correlate call
    other_pending,     \* navigation positions its map() has not processed yet
    other_completed,   \* the positions its map() has processed, in order
    other_matches,     \* its map()'s output, by navigation position
    other_results,     \* what its call returned, None until the return
    \* ---- ProfileIndexationGenerator, one per generator r in Runs
    magnitudes,        \* self.magnitudes of generator r
    simulation,        \* self.simulation, shared: [magnitudes, hkls]
    tolerance,         \* index_peaks(tolerance=...) of the call on generator r
    ppc,               \* "ready", "returned" or "raised", per generator
    indexation,        \* what index_peaks returned, per generator
    \* ---- VectorIndexationGenerator, and its calls c in Runs
    vectors,           \* self.vectors: [shape, data], a vector list per position
    vector_library,    \* self.library: sequence of phases with their templates
    vkeys,             \* index_vectors(keys=...)
    mag_threshold,     \* index_vectors(mag_threshold=...) of call c
    angle_threshold,   \* index_vectors(angle_threshold=...) of call c
    vpc,               \* position of call c
    vpending,          \* positions map() has not processed yet, per call
    vindexation,       \* map()'s output of call c, by navigation position
    indexation_results,\* what call c returned, None until the return
    \* ---- Diffraction2D: get_azimuthal_integral1d and get_azimuthal_integral2d,
    \* ---- each called once on one signal with the same arguments
    kwargs,            \* the arguments: unit, wavelength, radial_range, inplace,
                       \* and which of mask/affine/center is a BaseSignal
    self_unit,         \* self.unit (metadata.Signal.unit)
    apc,               \* position of each call
    setup,             \* the detector setup each call chose
    pyxem_units,       \* the local pyxem_units of each call
    unit,              \* the local unit of each call
    radial_range,      \* the local radial_range of each call
    pix_range,         \* the local pix_range of each call, "unbound" until assigned
    scale_factor,      \* the local scale_factor of each call, "unbound" until assigned
    \* ---- Diffraction2D.remove_background
    self_data,         \* self.data, a flat list of pixel values
    data_before,       \* self.data as it was when remove_background was called
    method,            \* remove_background(method)
    bpc,               \* position of the remove_background call
    bg_subtracted      \* the local bg_subtracted, None until map has returned

tvars == <<signal, navigation_axes, library, n_largest, keys, mask, pc, maskSig,
           pending, completed, matches, invoked, scored, matching_results>>

ovars == <<other_signal, other_pc, other_pending, other_completed, other_matches,
           other_results>>

pvars == <<magnitudes, simulation, tolerance, ppc, indexation>>

vvars == <<vectors, vector_library, vkeys, mag_threshold, angle_threshold, vpc,
           vpending, vindexation, indexation_results>>

avars == <<kwargs, self_unit, apc, setup, pyxem_units, unit, radial_range,
           pix_range, scale_factor>>

bvars == <<self_data, data_before, method, bpc, bg_subtracted>>

dvars == <<avars, bvars>>

vars == <<tvars, ovars, pvars, vvars, dvars>>

----------------------------------------------------------------------------
\* Bounds of the model.

\* Largest n_largest a call is made with.
MaxK == 3

\* Largest number of entries (over all phases) of a template library.
MaxLib == 2

\* Largest number of measured peaks of a profile.
MaxPeaks == 2

\* Largest number of reflections of a profile simulation.
MaxRefl == 2

\* Largest magnitude of a peak or reflection (in whole units).
MaxMag == 2

\* Largest number of navigation positions of a vectors signal.
MaxVPos == 1

----------------------------------------------------------------------------
\* Generic helpers.

RECURSIVE Prod(_)
Prod(s) == IF s = <<>> THEN 1 ELSE Head(s) * Prod(Tail(s))

SeqsOfLen(S, lo, hi) == UNION {[1..k -> S] : k \in lo..hi}

Abs(x) == IF x < 0 THEN -x ELSE x

Min(a, b) == IF a < b THEN a ELSE b

----------------------------------------------------------------------------
\* Input domains of the template matcher.

\* A diffraction pattern: the intensities of a two-pixel detector.
MeasuredPattern == {<<1, 0>>, <<1, 1>>}
LibraryPattern == {<<1, 0>>, <<0, 1>>, <<1, 1>>}

\* Navigation shapes (hyperspy's navigation_shape), one or two dimensional.
NavShapes == {<<1>>, <<2>>, <<1, 1>>, <<1, 2>>, <<2, 1>>}

PhaseNames == <<"A", "B">>

\* A phase of the library: its entries keyed by orientation (Euler angles).
MkPhase(name, pats) ==
    [name |-> name,
     entries |-> [j \in 1..Len(pats) |->
                    [angles |-> <<j, j, j>>, pattern |-> pats[j]]]]

Libraries ==
    {<<MkPhase(PhaseNames[1], pa)>> : pa \in SeqsOfLen(LibraryPattern, 1, MaxLib)}
    \cup
    {<<MkPhase(PhaseNames[1], pa), MkPhase(PhaseNames[2], pb)>> :
        <<pa, pb>> \in {x \in SeqsOfLen(LibraryPattern, 1, MaxLib)
                              \X SeqsOfLen(LibraryPattern, 1, MaxLib) :
                            Len(x[1]) + Len(x[2]) <= MaxLib}}

\* keys: empty, or the phase names of the library in some order.
KeysFor(lib) ==
    {<<>>} \cup {k \in [1..Len(lib) -> {lib[i].name : i \in 1..Len(lib)}] :
                    \A i, j \in 1..Len(lib) : i # j => k[i] # k[j]}

\* Python's None, for the mask argument and for a result not yet returned.
None == [shape |-> <<>>, data |-> <<>>]

Signals == {[shape |-> s.shape, data |-> s.data] :
               s \in UNION {[shape : {sh}, data : [1..Prod(sh) -> MeasuredPattern]] :
                               sh \in NavShapes}}

\* A caller-supplied mask has the navigation shape of the signal; 1 is true.
MasksFor(sig) ==
    {None} \cup [shape : {sig.shape}, data : [1..Prod(sig.shape) -> {0, 1}]]

\* The calibration of a navigation axis of n positions.
MkAxis(n, scale, offset, units, name) ==
    [size |-> n, scale |-> scale, offset |-> offset, units |-> units, name |-> name]

\* The axis a freshly built signal has along a dimension of n positions.
DefaultAxis(n) == MkAxis(n, 1, 0, "undefined", "undefined")

AxisNames == <<"x", "y">>

\* The navigation axes of a signal of the given shape: left uncalibrated, or
\* calibrated with a scale, offset, unit and name of their own.
AxesFor(shape) ==
    {[i \in 1..Len(shape) |-> DefaultAxis(shape[i])],
     [i \in 1..Len(shape) |-> MkAxis(shape[i], i + 1, i, "nm", AxisNames[i])]}

\* Navigation positions of the signal, in flat iteration order.
Positions == 1..Prod(signal.shape)

----------------------------------------------------------------------------
\* The template matcher applied at one position (pyxem.utils.indexation_utils
\* correlate_library), after the design document, section 4.1.

Dot(a, b) == a[1] * b[1] + a[2] * b[2]

\* The normalised correlation of two patterns, kept exact as the fraction
\* num/den of its square (intensities are non-negative, so the order of the
\* squares is the order of the scores); 1 is the largest possible value.
correlate_pattern(image, pattern) ==
    [num |-> Dot(image, pattern) * Dot(image, pattern),
     den |-> Dot(image, image) * Dot(pattern, pattern)]

ZeroScore == [num |-> 0, den |-> 1]

ScoreGreater(s, t) == s.num * t.den > t.num * s.den

ScoreEqual(s, t) == s.num * t.den = t.num * s.den

IsMaxScore(s) == s.num = s.den

\* The zero-filled record of a placeholder and of padding.
ZeroRecord == [phase |-> 0, angles |-> <<0, 0, 0>>, score |-> ZeroScore]

Placeholder(n) == [k \in 1..n |-> ZeroRecord]

\* The number a phase is reported as: its place in keys (keys = ['si','ga']
\* reports 0 for 'si' and 1 for 'ga'), or without keys its place in the
\* library.
PhaseNumber(lib, i, ks) ==
    IF ks = <<>> THEN i - 1
    ELSE (CHOOSE n \in 1..Len(ks) : ks[n] = lib[i].name) - 1

PhaseCandidates(image, lib, ks, i) ==
    [j \in 1..Len(lib[i].entries) |->
        [phase |-> PhaseNumber(lib, i, ks),
         angles |-> lib[i].entries[j].angles,
         score |-> correlate_pattern(image, lib[i].entries[j].pattern)]]

\* Every hypothesis of the library scored, in library iteration order.
RECURSIVE AllCandidates(_, _, _, _)
AllCandidates(image, lib, ks, i) ==
    IF i > Len(lib) THEN <<>>
    ELSE PhaseCandidates(image, lib, ks, i) \o AllCandidates(image, lib, ks, i + 1)

\* A variant of StaysBefore that lets a later hypothesis overtake an equal one.
StaysBeforeOnlyIfGreater(h, r) == ScoreGreater(h.score, r.score)

\* Whether ranked record h stays in front of the newly inserted r: it does
\* unless r scores strictly higher (equal scores keep library order).
StaysBefore(h, r) == ~ScoreGreater(r.score, h.score)

RECURSIVE InsertByScore(_, _)
InsertByScore(r, ranked) ==
    IF ranked = <<>> THEN <<r>>
    ELSE IF StaysBefore(Head(ranked), r)
         THEN <<Head(ranked)>> \o InsertByScore(r, Tail(ranked))
         ELSE <<r>> \o ranked

\* Stable sort by descending score.
RECURSIVE SortByScore(_)
SortByScore(s) ==
    IF s = <<>> THEN <<>>
    ELSE InsertByScore(s[Len(s)], SortByScore(SubSeq(s, 1, Len(s) - 1)))

\* Whether the matcher scores the library at a position with mask entry m.
ComputesCorrelations(m) == m = 1

correlate_library(image, lib, n, m, ks) ==
    IF ComputesCorrelations(m)
    THEN LET ranked == SortByScore(AllCandidates(image, lib, ks, 1))
         IN  [k \in 1..n |-> IF k <= Len(ranked) THEN ranked[k] ELSE ZeroRecord]
    ELSE Placeholder(n)

----------------------------------------------------------------------------
\* IndexationGenerator.correlate.

\* np.ones((sig_shape[0], sig_shape[1], 1)) as a Signal1D: the data axes are
\* the reverse of the navigation axes, so its navigation shape is
\* (sig_shape[1], sig_shape[0]).
OnesMask(sig_shape) ==
    [shape |-> <<sig_shape[2], sig_shape[1]>>,
     data |-> [k \in 1..(sig_shape[1] * sig_shape[2]) |-> 1]]

\* Lines 89-94: the mask defaults to ones; indexing sig_shape[1] of a
\* one-dimensional navigation shape raises IndexError.
CorrelateMask ==
    /\ pc = "start"
    /\ IF mask = None
       THEN IF Len(signal.shape) < 2
            THEN /\ pc' = "IndexError"
                 /\ UNCHANGED maskSig
            ELSE /\ maskSig' = OnesMask(signal.shape)
                 /\ pc' = "map"
       ELSE /\ maskSig' = mask
            /\ pc' = "map"
    /\ UNCHANGED <<signal, navigation_axes, library, n_largest, keys, mask,
                   pending, completed, matches, invoked, scored, matching_results>>
    /\ UNCHANGED <<ovars, pvars, vvars, dvars>>

\* A variant of MaskAt in which the mask is not handed to map().
MaskAtNotForwarded(p) == 1

\* mask=mask (line 100): map() iterates the mask signal with the signal and
\* hands the function the mask entry of the position.
MaskAt(p) == maskSig.data[p]

\* A variant of NLargestArg in which the caller's n_largest is off by one.
NLargestArgOffByOne == n_largest + 1

\* n_largest=n_largest (line 98).
NLargestArg == n_largest

\* A variant of KeysArg in which the caller's keys are not forwarded.
KeysArgNotForwarded == <<>>

\* keys=keys (line 99).
KeysArg == keys

\* A variant of PositionData in which every call is handed the data of the
\* first navigation position.
FirstPositionData(sig, p) == sig.data[1]

\* The signal data map() hands the function at navigation position p.
PositionData(sig, p) == sig.data[p]

\* The call map() makes at navigation position p of signal sig (lines 96-102).
MappedCallOn(sig, p) ==
    correlate_library(PositionData(sig, p), library, NLargestArg, MaskAt(p), KeysArg)

\* The call map() makes at navigation position p (lines 96-102).
MappedCall(p) == MappedCallOn(signal, p)

\* A variant of Inplace in which map() is asked to work in place.
InplaceTrue == TRUE

\* inplace=False (lines 101 and 235).
Inplace == FALSE

\* The mapped signal after map() has produced out at position p: in place the
\* output overwrites the position's data, otherwise the signal is left alone
\* and the output goes to a new signal.
MapWrites(sig, p, out) ==
    IF Inplace THEN [sig EXCEPT !.data[p] = out] ELSE sig

\* A variant of ResultCoordinate in which an output is stored in the order
\* of completion.
CompletionCoordinate(p, done) == Len(done) + 1

\* The coordinate at which map() stores the output of navigation position p,
\* given the positions done so far: its own.
ResultCoordinate(p, done) == p

\* Lines 96-102, one position of signal.map(correlate_library, ...,
\* inplace=False): positions are processed in any order and each output is
\* stored at its own navigation coordinate.
MapStep(p) ==
    /\ pc = "map"
    /\ p \in pending
    /\ pending' = pending \ {p}
    /\ invoked' = invoked \cup {p}
    /\ scored' = IF ComputesCorrelations(MaskAt(p)) THEN scored \cup {p} ELSE scored
    /\ matches' = (ResultCoordinate(p, completed) :> MappedCall(p)) @@ matches
    /\ completed' = Append(completed, p)
    /\ signal' = MapWrites(signal, p, MappedCall(p))
    /\ UNCHANGED <<navigation_axes, library, n_largest, keys, mask, pc, maskSig,
                   matching_results>>
    /\ UNCHANGED <<ovars, pvars, vvars, dvars>>

\* TemplateMatchingResults(matches) (line 103): the outputs wrapped in a new
\* signal with the navigation shape of the signal and uncalibrated axes.
TemplateMatchingResults(shape, data) ==
    [shape |-> shape, data |-> data,
     axes |-> [i \in 1..Len(shape) |-> DefaultAxis(shape[i])]]

\* A variant of transfer_navigation_axes that leaves the new signal's axes
\* as they are.
AxesNotTransferred(new_signal, old_axes) == new_signal

\* pyxem.utils.sim_utils transfer_navigation_axes, after the design document,
\* section 4.4: the scale, offset, units and name of every navigation axis
\* are copied from the old signal's axes.
transfer_navigation_axes(new_signal, old_axes) ==
    [new_signal EXCEPT
       !.axes = [i \in 1..Len(@) |->
                   IF i <= Len(old_axes)
                   THEN [@[i] EXCEPT !.scale = old_axes[i].scale,
                                     !.offset = old_axes[i].offset,
                                     !.units = old_axes[i].units,
                                     !.name = old_axes[i].name]
                   ELSE @[i]]]

\* Lines 103-107: once map() has processed the grid, the outputs are wrapped,
\* the navigation axes are transferred from the signal, and the result is
\* returned.
CorrelateReturn ==
    /\ pc = "map"
    /\ pending = {}
    /\ matching_results' =
          transfer_navigation_axes(TemplateMatchingResults(signal.shape, matches),
                                   navigation_axes)
    /\ pc' = "done"
    /\ UNCHANGED <<signal, navigation_axes, library, n_largest, keys, mask,
                   maskSig, pending, completed, matches, invoked, scored>>
    /\ UNCHANGED <<ovars, pvars, vvars, dvars>>

\* No second generator is modelled.
OtherIdle ==
    /\ other_signal = None
    /\ other_pc = "idle"
    /\ other_pending = {}
    /\ other_completed = <<>>
    /\ other_matches = <<>>
    /\ other_results = None

\* The two azimuthal integrations of Diffraction2D.
Integrals == {"integral1d", "integral2d"}

\* No azimuthal integration is modelled.
AzimuthalIdle ==
    /\ kwargs = [unit |-> "pyxem", wavelength |-> "None", radial_range |-> "None",
                 iterating |-> "none", inplace |-> FALSE]
    /\ self_unit = "None"
    /\ apc = [f \in Integrals |-> "idle"]
    /\ setup = [f \in Integrals |-> "none"]
    /\ pyxem_units = [f \in Integrals |-> FALSE]
    /\ unit = [f \in Integrals |-> "pyxem"]
    /\ radial_range = [f \in Integrals |-> "None"]
    /\ pix_range = [f \in Integrals |-> "unbound"]
    /\ scale_factor = [f \in Integrals |-> "unbound"]

\* No remove_background call is modelled.
BackgroundIdle ==
    /\ self_data = <<>>
    /\ data_before = <<>>
    /\ method = "median"
    /\ bpc = "idle"
    /\ bg_subtracted = None

\* No Diffraction2D call is modelled.
DiffractionIdle == AzimuthalIdle /\ BackgroundIdle

\* No index_peaks call is modelled: the profile generators stay as built.
ProfileIdle ==
    /\ magnitudes = <<<<>>, <<>>>>
    /\ simulation = [magnitudes |-> <<>>, hkls |-> <<>>]
    /\ tolerance = <<0, 0>>
    /\ ppc = <<"idle", "idle">>
    /\ indexation = <<<<>>, <<>>>>

\* No index_vectors call is modelled: the vector generator stays as built.
VectorIdle ==
    /\ vectors = [shape |-> <<1>>, data |-> <<<<>>>>]
    /\ vector_library = <<>>
    /\ vkeys = <<>>
    /\ mag_threshold = <<0, 0>>
    /\ angle_threshold = <<0, 0>>
    /\ vpc = <<"idle", "idle">>
    /\ vpending = <<{}, {}>>
    /\ vindexation = <<<<>>, <<>>>>
    /\ indexation_results = <<None, None>>

Init ==
    /\ OtherIdle
    /\ DiffractionIdle
    /\ ProfileIdle
    /\ VectorIdle
    /\ signal \in Signals
    /\ navigation_axes \in AxesFor(signal.shape)
    /\ library \in Libraries
    /\ keys \in KeysFor(library)
    /\ n_largest \in 1..MaxK
    /\ mask \in MasksFor(signal)
    /\ pc = "start"
    /\ maskSig = None
    /\ pending = Positions
    /\ completed = <<>>
    /\ matches = <<>>
    /\ invoked = {}
    /\ scored = {}
    /\ matching_results = None

Next ==
    \/ CorrelateMask
    \/ \E p \in pending : MapStep(p)
    \/ CorrelateReturn

Spec == Init /\ [][Next]_vars

----------------------------------------------------------------------------
\* Two correlate calls: once the first generator's call has returned, a
\* second generator holding another signal on the same navigation grid is
\* correlated with the same library, n_largest, keys and mask.

\* Lines 89-102 of the second call, one position of its map(): the mask of
\* lines 91-94 is the one the first call built, the grid and the mask
\* argument being the same.
OtherMapStep(p) ==
    /\ pc = "done"
    /\ other_pc = "map"
    /\ p \in other_pending
    /\ other_pending' = other_pending \ {p}
    /\ other_matches' = (ResultCoordinate(p, other_completed)
                            :> MappedCallOn(other_signal, p)) @@ other_matches
    /\ other_completed' = Append(other_completed, p)
    /\ other_signal' = MapWrites(other_signal, p, MappedCallOn(other_signal, p))
    /\ UNCHANGED <<other_pc, other_results>>
    /\ UNCHANGED <<tvars, pvars, vvars, dvars>>

\* Lines 103-107 of the second call.
OtherReturn ==
    /\ pc = "done"
    /\ other_pc = "map"
    /\ other_pending = {}
    /\ other_results' =
          transfer_navigation_axes(
              TemplateMatchingResults(other_signal.shape, other_matches),
              navigation_axes)
    /\ other_pc' = "done"
    /\ UNCHANGED <<other_signal, other_pending, other_completed, other_matches>>
    /\ UNCHANGED <<tvars, pvars, vvars, dvars>>

\* The library of the two calls holds one phase; the grid is uncalibrated.
InitPair ==
    /\ DiffractionIdle
    /\ ProfileIdle
    /\ VectorIdle
    /\ signal \in Signals
    /\ navigation_axes = [i \in 1..Len(signal.shape) |-> DefaultAxis(signal.shape[i])]
    /\ library \in {lib \in Libraries : Len(lib) = 1}
    /\ keys \in KeysFor(library)
    /\ n_largest \in 1..MaxK
    /\ mask \in MasksFor(signal)
    /\ pc = "start"
    /\ maskSig = None
    /\ pending = Positions
    /\ completed = <<>>
    /\ matches = <<>>
    /\ invoked = {}
    /\ scored = {}
    /\ matching_results = None
    /\ other_signal \in {sig \in Signals : sig.shape = signal.shape}
    /\ other_pc = "map"
    /\ other_pending = Positions
    /\ other_completed = <<>>
    /\ other_matches = <<>>
    /\ other_results = None

NextPair ==
    \/ CorrelateMask
    \/ \E p \in pending : MapStep(p)
    \/ CorrelateReturn
    \/ \E p \in other_pending : OtherMapStep(p)
    \/ OtherReturn

SpecPair == InitPair /\ [][NextPair]_vars

----------------------------------------------------------------------------
\* correlate called with a configuration the design document rules out.

\* The configuration errors of the design document, section 7: an empty
\* library, n_largest < 1, a mask whose shape is not the navigation shape,
\* a keys list whose length is not the number of phases.
ConfigError ==
    \/ library = <<>>
    \/ n_largest < 1
    \/ mask # None /\ mask.shape # signal.shape
    \/ keys # <<>> /\ Len(keys) # Len(library)

\* Masks over as many positions as the signal has, in another shape.
MismatchedMasks(sig) ==
    UNION {[shape : {sh}, data : [1..Prod(sh) -> {0, 1}]] :
             sh \in {x \in NavShapes : Prod(x) = Prod(sig.shape) /\ x # sig.shape}}

\* Lines 96-102 when the matcher raises at position p.  The matcher is not
\* part of the sources modelled here and the design document does not say
\* what it does with a configuration it rules out: it returns what its
\* contract says (MapStep), or it raises, which ends the call.
MapRaises(p) ==
    /\ pc = "map"
    /\ ConfigError
    /\ p \in pending
    /\ invoked' = invoked \cup {p}
    /\ pc' = "raised"
    /\ UNCHANGED <<signal, navigation_axes, library, n_largest, keys, mask,
                   maskSig, pending, completed, matches, scored, matching_results>>
    /\ UNCHANGED <<ovars, pvars, vvars, dvars>>

\* A call with at least one configuration error; the library is empty or
\* holds one phase with one entry, and keys name the phases of the library.
InitConfig ==
    /\ OtherIdle
    /\ DiffractionIdle
    /\ ProfileIdle
    /\ VectorIdle
    /\ signal \in Signals
    /\ navigation_axes = [i \in 1..Len(signal.shape) |-> DefaultAxis(signal.shape[i])]
    /\ library \in {<<>>} \cup {lib \in Libraries :
                                  Len(lib) = 1 /\ Len(lib[1].entries) = 1}
    /\ keys \in {<<>>, <<PhaseNames[1]>>, <<PhaseNames[1], PhaseNames[2]>>}
    /\ n_largest \in 0..1
    /\ mask \in MasksFor(signal) \cup MismatchedMasks(signal)
    /\ ConfigError
    /\ pc = "start"
    /\ maskSig = None
    /\ pending = Positions
    /\ completed = <<>>
    /\ matches = <<>>
    /\ invoked = {}
    /\ scored = {}
    /\ matching_results = None

NextConfig ==
    \/ CorrelateMask
    \/ \E p \in pending : MapStep(p)
    \/ \E p \in pending : MapRaises(p)
    \/ CorrelateReturn

SpecConfig == InitConfig /\ [][NextConfig]_vars

----------------------------------------------------------------------------
\* Vocabulary of the properties of correlate.

\* The caller's mask disables position p.
MaskFalseAt(p) == mask # None /\ mask.data[p] = 0

\* The hypotheses of the library: <<phase i, entry j>>.
Hyps == UNION {{i} \X (1..Len(library[i].entries)) : i \in 1..Len(library)}

LibSize == Cardinality(Hyps)

\* The place of hypothesis h in library iteration order.
FlatIndex(h) ==
    Cardinality({g \in Hyps : g[1] < h[1] \/ (g[1] = h[1] /\ g[2] < h[2])}) + 1

HypPattern(h) == library[h[1]].entries[h[2]].pattern

\* Record r reports hypothesis h: its phase under the caller's keys and its
\* orientation.
Reports(r, h) ==
    /\ r.phase = PhaseNumber(library, h[1], keys)
    /\ r.angles = library[h[1]].entries[h[2]].angles

\* Patterns a and b are proportional: their normalised correlation is 1.
Proportional(a, b) == a[1] * b[2] = a[2] * b[1]

AllZeroRecord(r) ==
    r = [phase |-> 0, angles |-> <<0, 0, 0>>, score |-> [num |-> 0, den |-> 1]]

----------------------------------------------------------------------------
\* C1: at every navigation position where the supplied mask is false, the
\* stored result is the placeholder of n_largest zero-filled records
\* (phase 0, angles 0, score 0), whatever the measured pattern there is; the
\* returned results hold the same placeholder.
C1_MaskedPositionHoldsPlaceholder ==
    /\ \A p \in DOMAIN matches :
          MaskFalseAt(p) =>
            /\ Len(matches[p]) = n_largest
            /\ \A k \in 1..n_largest : AllZeroRecord(matches[p][k])
    /\ pc = "done" =>
          \A p \in Positions :
            MaskFalseAt(p) =>
              /\ Len(matching_results.data[p]) = n_largest
              /\ \A k \in 1..n_largest : AllZeroRecord(matching_results.data[p][k])

\* A finished call with a masked position whose pattern is in the library
\* (matching it would have given a non-zero score) beside an unmasked one.
C1_Witness ==
    /\ pc = "done"
    /\ \E p, q \in Positions :
          /\ MaskFalseAt(p)
          /\ \E h \in Hyps : HypPattern(h) = signal.data[p]
          /\ mask.data[q] = 1
          /\ ~AllZeroRecord(matching_results.data[q][1])

C3_ResultLengthIsNLargest ==
    \A p \in DOMAIN matches :
      /\ Len(matches[p]) = n_largest
      /\ (~MaskFalseAt(p) /\ LibSize < n_largest) =>
            /\ \A h \in Hyps : \E k \in 1..LibSize : Reports(matches[p][k], h)
            /\ \A k \in (LibSize + 1)..n_largest : AllZeroRecord(matches[p][k])

\* An unmasked position matched against a library smaller than n_largest,
\* and the result padded.
C3_Witness ==
    \E p \in DOMAIN matches :
      /\ ~MaskFalseAt(p)
      /\ LibSize < n_largest
      /\ ~AllZeroRecord(matches[p][LibSize])
      /\ AllZeroRecord(matches[p][n_largest])

\* C4: every position's records are in descending score order, and two
\* hypotheses of equal score appear in library iteration order.
C4_DescendingScoreStableTies ==
    \A p \in DOMAIN matches :
      \A a, b \in 1..Len(matches[p]) :
        a < b =>
          /\ ~ScoreGreater(matches[p][b].score, matches[p][a].score)
          /\ (~MaskFalseAt(p) /\ b <= LibSize
                /\ ScoreEqual(matches[p][a].score, matches[p][b].score)) =>
                \E g, h \in Hyps :
                  /\ Reports(matches[p][a], g)
                  /\ Reports(matches[p][b], h)
                  /\ FlatIndex(g) < FlatIndex(h)

\* A result whose first two records are hypotheses of equal non-zero score.
C4_Witness ==
    \E p \in DOMAIN matches :
      /\ ~MaskFalseAt(p)
      /\ n_largest >= 2
      /\ LibSize >= 2
      /\ ScoreEqual(matches[p][1].score, matches[p][2].score)
      /\ matches[p][1].score.num > 0

\* C5 as stated: if the pattern at an unmasked position equals the pattern
\* of hypothesis h, the first record is h with the maximum score.
C5_ExactMatchIsTop ==
    \A p \in DOMAIN matches :
      \A h \in Hyps :
        (~MaskFalseAt(p) /\ HypPattern(h) = signal.data[p]) =>
          /\ Reports(matches[p][1], h)
          /\ IsMaxScore(matches[p][1].score)

\* C5, amended: if the pattern at an unmasked position equals the pattern of
\* hypothesis h, the first record carries the maximum score and reports,
\* under the caller's keys, the first hypothesis in library order whose
\* pattern is the measured one up to scale; it is h itself when no earlier
\* hypothesis has such a pattern.
C5_ExactMatchIsTopUnlessEarlierTie ==
    \A p \in DOMAIN matches :
      \A h \in Hyps :
        (~MaskFalseAt(p) /\ HypPattern(h) = signal.data[p]) =>
          LET same == {g \in Hyps : Proportional(HypPattern(g), signal.data[p])}
              first == CHOOSE g \in same : \A f \in same : FlatIndex(g) <= FlatIndex(f)
          IN  /\ matches[p][1].score.num = matches[p][1].score.den
              /\ Reports(matches[p][1], first)
              /\ (\A g \in same : FlatIndex(h) <= FlatIndex(g)) =>
                    Reports(matches[p][1], h)

\* An exact match found in the second phase of a library whose keys reverse
\* the phase order, behind a first phase that scores lower.
C5_Witness ==
    \E p \in DOMAIN matches :
      /\ ~MaskFalseAt(p)
      /\ Len(library) = 2
      /\ keys = <<library[2].name, library[1].name>>
      /\ HypPattern(<<2, 1>>) = signal.data[p]
      /\ ~Proportional(HypPattern(<<1, 1>>), signal.data[p])
      /\ matches[p][1].phase = 0
      /\ matches[p][1].score.num = matches[p][1].score.den

----------------------------------------------------------------------------
\* ProfileIndexationGenerator.index_peaks.

Runs == 1..2

Tolerances == {0, 50, 100}

\* A simulation's reflections: magnitudes with their Miller indices.
MkSimulation(mags) ==
    [magnitudes |-> mags, hkls |-> [j \in 1..Len(mags) |-> <<j, 0, 0>>]]

\* The peaks of ms that are not zero, in order.
WithoutZeros(ms) == SelectSeq(ms, LAMBDA m : m # 0)

\* A variant of TrueDivide that raises on a zero divisor, as the division of
\* Python scalars does.
TrueDivideOrRaise(x, m) ==
    IF m # 0 THEN [kind |-> "fin", num |-> x, den |-> m]
    ELSE [kind |-> "raise", num |-> 0, den |-> 0]

\* x / m of numpy (line 166): a zero divisor gives inf, or nan for 0 / 0,
\* with a warning and no exception.  A finite quotient is kept exact as
\* num/den.
TrueDivide(x, m) ==
    IF m # 0 THEN [kind |-> "fin", num |-> x, den |-> m]
    ELSE IF x # 0 THEN [kind |-> "inf", num |-> x, den |-> 0]
    ELSE [kind |-> "nan", num |-> 0, den |-> 0]

\* np.absolute(q * 100) (line 166).
AbsoluteTimes100(q) ==
    IF q.kind = "fin" THEN [kind |-> "fin", num |-> Abs(q.num) * 100, den |-> Abs(q.den)]
    ELSE IF q.kind = "inf" THEN [kind |-> "inf", num |-> 1, den |-> 0]
    ELSE q

\* diff of line 166 for peak m: one deviation per reflection.
PercentDeviations(sim_mags, m) ==
    [j \in 1..Len(sim_mags) |-> AbsoluteTimes100(TrueDivide(sim_mags[j] - m, m))]

\* A variant of LessThan that also keeps a deviation equal to the tolerance.
LessThanOrEqual(d, tol) == d.kind = "fin" /\ d.num <= tol * d.den

\* A variant of LessThan with the comparison inverted.
GreaterThan(d, tol) == d.kind = "fin" /\ d.num > tol * d.den

\* diff < tolerance (lines 168-169): false for inf and for nan.
LessThan(d, tol) == d.kind = "fin" /\ d.num < tol * d.den

\* np.where(diff < tolerance): the qualifying indices, ascending.
RECURSIVE Where(_, _, _)
Where(diff, tol, j) ==
    IF j > Len(diff) THEN <<>>
    ELSE IF LessThan(diff[j], tol) THEN <<j>> \o Where(diff, tol, j + 1)
    ELSE Where(diff, tol, j + 1)

\* A variant of SelectedDeviations that lists the selected deviations from
\* the last to the first.
SelectedDeviationsReversed(diff, idx) ==
    [k \in 1..Len(idx) |-> diff[idx[Len(idx) + 1 - k]]]

\* diff[np.where(diff < tolerance)] (line 169): the deviations at the
\* qualifying indices, in the order of the indices.
SelectedDeviations(diff, idx) == [k \in 1..Len(idx) |-> diff[idx[k]]]

\* Lines 166-172 for peak m: (m, (hkls, diffs)).
IndexPeak(m, sim, tol) ==
    LET diff == PercentDeviations(sim.magnitudes, m)
        idx == Where(diff, tol, 1)
        hkls == [k \in 1..Len(idx) |-> sim.hkls[idx[k]]]
        diffs == SelectedDeviations(diff, idx)
    IN  <<m, <<hkls, diffs>>>>

\* The loop of lines 165-172 from peak i on.
RECURSIVE IndexLoop(_, _, _, _, _)
IndexLoop(mags, sim, tol, i, acc) ==
    IF i > Len(mags) THEN acc
    ELSE IndexLoop(mags, sim, tol, i + 1, Append(acc, IndexPeak(mags[i], sim, tol)))

\* Whether a division of the loop raises.
LoopRaises(mags, sim) ==
    \E i \in 1..Len(mags) : \E j \in 1..Len(sim.magnitudes) :
        TrueDivide(sim.magnitudes[j] - mags[i], mags[i]).kind = "raise"

\* index_peaks(tolerance) on generator r (lines 156-174).
IndexPeaks(r) ==
    /\ ppc[r] = "ready"
    /\ IF LoopRaises(magnitudes[r], simulation)
       THEN /\ ppc' = [ppc EXCEPT ![r] = "raised"]
            /\ UNCHANGED indexation
       ELSE /\ ppc' = [ppc EXCEPT ![r] = "returned"]
            /\ indexation' = [indexation EXCEPT
                                ![r] = IndexLoop(magnitudes[r], simulation,
                                                 tolerance[r], 1, <<>>)]
    /\ UNCHANGED <<magnitudes, simulation, tolerance>>
    /\ UNCHANGED <<tvars, ovars, vvars, dvars>>

\* No correlate call is modelled: the template generator stays as built.
TemplateIdle ==
    /\ signal = [shape |-> <<1>>, data |-> <<<<1, 0>>>>]
    /\ navigation_axes = <<DefaultAxis(1)>>
    /\ library = <<MkPhase(PhaseNames[1], <<<<1, 0>>>>)>>
    /\ keys = <<>>
    /\ n_largest = 1
    /\ mask = None
    /\ pc = "idle"
    /\ maskSig = None
    /\ pending = {}
    /\ completed = <<>>
    /\ matches = <<>>
    /\ invoked = {}
    /\ scored = {}
    /\ matching_results = None
    /\ OtherIdle

\* Two generators over one simulation: the second holds the same peaks as the
\* first, or the first's peaks without the zero ones.
InitProfile ==
    /\ TemplateIdle
    /\ DiffractionIdle
    /\ VectorIdle
    /\ simulation \in {MkSimulation(ms) : ms \in SeqsOfLen(0..MaxMag, 1, MaxRefl)}
    /\ \E ms \in SeqsOfLen(0..MaxMag, 0, MaxPeaks) :
          magnitudes \in {<<ms, ms>>, <<ms, WithoutZeros(ms)>>}
    /\ tolerance \in Tolerances \X Tolerances
    /\ ppc = <<"ready", "ready">>
    /\ indexation = <<<<>>, <<>>>>

NextProfile == \E r \in Runs : IndexPeaks(r)

SpecProfile == InitProfile /\ [][NextProfile]_vars

----------------------------------------------------------------------------
\* Vocabulary of the properties of index_peaks.

Returned(r) == ppc[r] = "returned"

\* The parts of an entry (m, (hkls, deviations)).
EntryMagnitude(e) == e[1]

EntryHkls(e) == e[2][1]

EntryDeviations(e) == e[2][2]

Range(f) == {f[k] : k \in DOMAIN f}

\* Reflection j deviates from peak m by strictly less than tol percent:
\* |sim_mag - m| / m * 100 < tol, for a magnitude m > 0.
WithinTolerance(j, m, tol) ==
    m > 0 /\ Abs(simulation.magnitudes[j] - m) * 100 < tol * m

----------------------------------------------------------------------------
\* C6: index_peaks returns one entry per measured magnitude, in input order;
\* entry i pairs magnitude i with the Miller indices and deviations of exactly
\* the reflections whose relative percent deviation from it is strictly less
\* than the tolerance.
C6_RetainsExactlyWithinTolerance ==
    \A r \in Runs :
      Returned(r) =>
        /\ Len(indexation[r]) = Len(magnitudes[r])
        /\ \A i \in 1..Len(magnitudes[r]) :
              LET e == indexation[r][i]
                  kept == {j \in 1..Len(simulation.magnitudes) :
                             WithinTolerance(j, magnitudes[r][i], tolerance[r])}
              IN  /\ EntryMagnitude(e) = magnitudes[r][i]
                  /\ Range(EntryHkls(e)) = {simulation.hkls[j] : j \in kept}
                  /\ Len(EntryHkls(e)) = Cardinality(kept)
                  /\ Len(EntryDeviations(e)) = Cardinality(kept)

\* A returned call in which one peak keeps a reflection and rejects another
\* whose deviation equals the tolerance.
C6_Witness ==
    \E r \in Runs :
      /\ Returned(r)
      /\ \E i \in 1..Len(magnitudes[r]) :
            /\ Len(EntryHkls(indexation[r][i])) = 1
            /\ \E j \in 1..Len(simulation.magnitudes) :
                  /\ magnitudes[r][i] > 0
                  /\ Abs(simulation.magnitudes[j] - magnitudes[r][i]) * 100
                        = tolerance[r] * magnitudes[r][i]
                  /\ simulation.hkls[j] \notin Range(EntryHkls(indexation[r][i]))

\* C7: for the same magnitudes and simulation, the candidates a smaller
\* tolerance returns for a peak are among those a larger tolerance returns
\* for it.
C7_ToleranceMonotone ==
    \A a, b \in Runs :
      (/\ Returned(a)
       /\ Returned(b)
       /\ magnitudes[a] = magnitudes[b]
       /\ tolerance[a] < tolerance[b]) =>
        \A i \in 1..Len(magnitudes[a]) :
          Range(EntryHkls(indexation[a][i])) \subseteq Range(EntryHkls(indexation[b][i]))

\* Two returned calls on the same peaks where the larger tolerance returns
\* strictly more candidates for a peak than the smaller, which returns some.
C7_Witness ==
    /\ Returned(1)
    /\ Returned(2)
    /\ magnitudes[1] = magnitudes[2]
    /\ tolerance[1] < tolerance[2]
    /\ \E i \in 1..Len(magnitudes[1]) :
          /\ EntryHkls(indexation[1][i]) # <<>>
          /\ Len(EntryHkls(indexation[1][i])) < Len(EntryHkls(indexation[2][i]))

\* C8: a zero-magnitude peak does not abort index_peaks: no call raises, a
\* returned call has an entry for every peak, a zero peak's entry holds no
\* candidates (none is drawn from an inf or nan deviation), and the entries
\* of the other peaks are those of a call on the peaks without the zero ones.
C8_ZeroPeakIsAbsorbed ==
    /\ \A r \in Runs : ppc[r] # "raised"
    /\ \A r \in Runs :
          Returned(r) =>
            /\ Len(indexation[r]) = Len(magnitudes[r])
            /\ \A i \in 1..Len(magnitudes[r]) :
                  /\ magnitudes[r][i] = 0 =>
                        /\ EntryHkls(indexation[r][i]) = <<>>
                        /\ EntryDeviations(indexation[r][i]) = <<>>
                  /\ \A k \in DOMAIN EntryDeviations(indexation[r][i]) :
                        EntryDeviations(indexation[r][i])[k].kind = "fin"
    /\ (/\ Returned(1)
        /\ Returned(2)
        /\ tolerance[1] = tolerance[2]
        /\ magnitudes[2] = WithoutZeros(magnitudes[1])) =>
          SelectSeq(indexation[1], LAMBDA e : EntryMagnitude(e) # 0) = indexation[2]

\* Two returned calls, the first over a zero peak and a non-zero peak that
\* finds a candidate, the second over the non-zero peak alone, against a
\* simulation with a zero and a non-zero reflection.
C8_Witness ==
    /\ Returned(1)
    /\ Returned(2)
    /\ tolerance[1] = tolerance[2]
    /\ Len(magnitudes[1]) = 2
    /\ Len(magnitudes[2]) = 1
    /\ magnitudes[2] = WithoutZeros(magnitudes[1])
    /\ EntryHkls(indexation[2][1]) # <<>>
    /\ \E j, k \in 1..Len(simulation.magnitudes) :
          simulation.magnitudes[j] = 0 /\ simulation.magnitudes[k] # 0

----------------------------------------------------------------------------
\* Input domains of the vector matcher.

\* Diffraction vectors (x, y) lying on the detector axes.
VectorValues == <<<<1, 0>>, <<2, 0>>, <<0, 1>>>>

MagThresholds == {0, 1}

AngleThresholds == {0, 90}

\* The elements of base at the indices idx, in order.
RECURSIVE Pick(_, _, _)
Pick(base, idx, i) ==
    IF i > Len(base) THEN <<>>
    ELSE IF i \in idx THEN <<base[i]>> \o Pick(base, idx, i + 1)
    ELSE Pick(base, idx, i + 1)

\* The lists of lo to hi distinct vectors.
VectorLists(lo, hi) ==
    {Pick(VectorValues, idx, 1) :
        idx \in {x \in SUBSET (1..Len(VectorValues)) :
                   Cardinality(x) >= lo /\ Cardinality(x) <= hi}}

\* A template holds at least two vectors.
Templates == VectorLists(2, Len(VectorValues))

VectorLibraries ==
    {<<[name |-> PhaseNames[1], template |-> t]>> : t \in Templates}
    \cup
    {<<[name |-> PhaseNames[1], template |-> t[1]],
       [name |-> PhaseNames[2], template |-> t[2]]>> : t \in Templates \X Templates}

VectorSignals ==
    UNION {[shape : {<<n>>}, data : [1..n -> VectorLists(0, Len(VectorValues))]] :
             n \in 1..MaxVPos}

----------------------------------------------------------------------------
\* The vector matcher applied at one position (pyxem.utils.indexation_utils
\* match_vectors), after the design document, section 4.3.

\* The length of a vector on a detector axis.
Magnitude(v) == Abs(v[1]) + Abs(v[2])

\* The angle in degrees between two vectors on the detector axes: the cosine
\* is 1, 0 or -1.
AngleBetween(u, v) ==
    LET d == u[1] * v[1] + u[2] * v[2]
    IN  IF d > 0 THEN 0 ELSE IF d = 0 THEN 90 ELSE 180

\* A variant of WithinThreshold with the comparison inverted.
OutsideThreshold(err, thr) == err >= thr

\* An absolute error is allowed up to the threshold, its maximum.
WithinThreshold(err, thr) == err <= thr

\* Step 1: the unordered pairs of n measured vectors.
MeasuredPairs(n) == {q \in (1..n) \X (1..n) : q[1] < q[2]}

\* Step 2: the template pairs, in both assignment orders.
TemplatePairs(n) == {q \in (1..n) \X (1..n) : q[1] # q[2]}

MagError(v, t) == Abs(Magnitude(v) - Magnitude(t))

AngleError(vi, vj, ta, tb) == Abs(AngleBetween(vi, vj) - AngleBetween(ta, tb))

\* Step 2: the tentative correspondences <<(i, j), (a, b)>> of measured pair
\* (v_i, v_j) with template pair (t_a, t_b).
Correspondences(vs, template, mt, at) ==
    {c \in MeasuredPairs(Len(vs)) \X TemplatePairs(Len(template)) :
        /\ WithinThreshold(MagError(vs[c[1][1]], template[c[2][1]]), mt)
        /\ WithinThreshold(MagError(vs[c[1][2]], template[c[2][2]]), mt)
        /\ WithinThreshold(AngleError(vs[c[1][1]], vs[c[1][2]],
                                      template[c[2][1]], template[c[2][2]]), at)}

\* The residual of a correspondence: its magnitude errors plus its angle error.
Residual(vs, template, c) ==
    MagError(vs[c[1][1]], template[c[2][1]])
    + MagError(vs[c[1][2]], template[c[2][2]])
    + AngleError(vs[c[1][1]], vs[c[1][2]], template[c[2][1]], template[c[2][2]])

RECURSIVE SumResiduals(_, _, _)
SumResiduals(vs, template, cs) ==
    IF cs = {} THEN 0
    ELSE LET c == CHOOSE x \in cs : TRUE
         IN  Residual(vs, template, c) + SumResiduals(vs, template, cs \ {c})

\* Step 3: the measured vectors a hypothesis explains.
Explained(cs) == {c[1][1] : c \in cs} \cup {c[1][2] : c \in cs}

\* Step 3: the record of phase i of the library.
HypothesisRecord(vs, lib, i, mt, at, ks) ==
    LET cs == Correspondences(vs, lib[i].template, mt, at)
    IN  [phase |-> PhaseNumber(lib, i, ks),
         count |-> Cardinality(Explained(cs)),
         residual |-> SumResiduals(vs, lib[i].template, cs)]

\* A variant of RankedBefore that ranks by the residual alone.
RankedBeforeByResidual(h, r) == h.residual <= r.residual

\* Step 4: ranked record h stays in front of the newly inserted r unless r
\* explains more vectors, or as many with a smaller residual.
RankedBefore(h, r) ==
    h.count > r.count \/ (h.count = r.count /\ h.residual <= r.residual)

RECURSIVE InsertByRank(_, _)
InsertByRank(r, ranked) ==
    IF ranked = <<>> THEN <<r>>
    ELSE IF RankedBefore(Head(ranked), r)
         THEN <<Head(ranked)>> \o InsertByRank(r, Tail(ranked))
         ELSE <<r>> \o ranked

\* The records of phases 1..i that explain a vector, ranked.
RECURSIVE RankHypotheses(_, _, _, _, _, _)
RankHypotheses(vs, lib, i, mt, at, ks) ==
    IF i = 0 THEN <<>>
    ELSE LET rest == RankHypotheses(vs, lib, i - 1, mt, at, ks)
             r == HypothesisRecord(vs, lib, i, mt, at, ks)
         IN  IF r.count > 0 THEN InsertByRank(r, rest) ELSE rest

\* Fewer than two vectors form no pair: the result is empty.
match_vectors(vs, lib, mt, at, ks) ==
    IF Len(vs) < 2 THEN <<>>
    ELSE RankHypotheses(vs, lib, Len(lib), mt, at, ks)

----------------------------------------------------------------------------
\* VectorIndexationGenerator.index_vectors.

VPositions == 1..Prod(vectors.shape)

\* A variant of VKeysArg in which the caller's keys are not forwarded.
VKeysArgNotForwarded == <<>>

\* keys=keys (line 234).
VKeysArg == vkeys

\* The call map() makes at navigation position p in call c (lines 230-237).
VMappedCall(c, p) ==
    match_vectors(vectors.data[p], vector_library, mag_threshold[c],
                  angle_threshold[c], VKeysArg)

\* Lines 227-237, one position of vectors.map(match_vectors, ...,
\* inplace=False).  The second call is made after the first has ended.
VectorMapStep(c, p) ==
    /\ vpc[c] = "map"
    /\ c = 1 \/ vpc[1] = "NameError"
    /\ p \in vpending[c]
    /\ vpending' = [vpending EXCEPT ![c] = @ \ {p}]
    /\ vindexation' = [vindexation EXCEPT ![c] = (p :> VMappedCall(c, p)) @@ @]
    /\ vectors' = MapWrites(vectors, p, VMappedCall(c, p))
    /\ UNCHANGED <<vector_library, vkeys, mag_threshold, angle_threshold, vpc,
                   indexation_results>>
    /\ UNCHANGED <<tvars, ovars, pvars, dvars>>

\* Line 239: the module imports TemplateMatchingResults only (line 27), so
\* the name VectorMatchingResults is undefined and the call raises NameError
\* once map() has finished; nothing is returned.
IndexVectorsWrap(c) ==
    /\ vpc[c] = "map"
    /\ vpending[c] = {}
    /\ vpc' = [vpc EXCEPT ![c] = "NameError"]
    /\ UNCHANGED <<vectors, vector_library, vkeys, mag_threshold, angle_threshold,
                   vpending, vindexation, indexation_results>>
    /\ UNCHANGED <<tvars, ovars, pvars, dvars>>

InitVector ==
    /\ TemplateIdle
    /\ DiffractionIdle
    /\ ProfileIdle
    /\ vectors \in VectorSignals
    /\ vector_library \in VectorLibraries
    /\ vkeys \in KeysFor(vector_library)
    /\ mag_threshold \in {t \in MagThresholds \X MagThresholds : t[1] <= t[2]}
    /\ angle_threshold \in {t \in AngleThresholds \X AngleThresholds : t[1] <= t[2]}
    /\ vpc = <<"map", "map">>
    /\ vpending = <<VPositions, VPositions>>
    /\ vindexation = <<<<>>, <<>>>>
    /\ indexation_results = <<None, None>>

NextVector ==
    \/ \E c \in Runs : \E p \in vpending[c] : VectorMapStep(c, p)
    \/ \E c \in Runs : IndexVectorsWrap(c)

SpecVector == InitVector /\ [][NextVector]_vars

----------------------------------------------------------------------------
\* Calls of the three generators side by side: a correlate call, an
\* index_peaks call on each of two profile generators and two index_vectors
\* calls, their steps interleaved in every order.

InitCalls ==
    /\ OtherIdle
    /\ DiffractionIdle
    /\ signal \in {sig \in Signals : sig.shape = <<1, 2>>}
    /\ navigation_axes = <<DefaultAxis(1), DefaultAxis(2)>>
    /\ library = <<MkPhase(PhaseNames[1], <<<<1, 0>>>>)>>
    /\ keys = <<>>
    /\ n_largest = 1
    /\ mask = None
    /\ pc = "start"
    /\ maskSig = None
    /\ pending = Positions
    /\ completed = <<>>
    /\ matches = <<>>
    /\ invoked = {}
    /\ scored = {}
    /\ matching_results = None
    /\ simulation \in {MkSimulation(<<m>>) : m \in 1..2}
    /\ magnitudes \in {<<<<m>>, <<m>>>> : m \in 0..2}
    /\ tolerance = <<50, 100>>
    /\ ppc = <<"ready", "ready">>
    /\ indexation = <<<<>>, <<>>>>
    /\ vectors \in {v \in VectorSignals : v.shape = <<1>>}
    /\ vector_library \in {lib \in VectorLibraries : Len(lib) = 1}
    /\ vkeys = <<>>
    /\ mag_threshold = <<0, 1>>
    /\ angle_threshold = <<0, 0>>
    /\ vpc = <<"map", "map">>
    /\ vpending = <<VPositions, VPositions>>
    /\ vindexation = <<<<>>, <<>>>>
    /\ indexation_results = <<None, None>>

NextCalls ==
    \/ CorrelateMask
    \/ \E p \in pending : MapStep(p)
    \/ CorrelateReturn
    \/ \E r \in Runs : IndexPeaks(r)
    \/ \E c \in Runs : \E p \in vpending[c] : VectorMapStep(c, p)
    \/ \E c \in Runs : IndexVectorsWrap(c)

SpecCalls == InitCalls /\ [][NextCalls]_vars

----------------------------------------------------------------------------
\* Vocabulary of the properties of index_vectors.

VPhases == 1..Len(vector_library)

\* Record r reports phase i of the library under the caller's keys.
VReports(r, i) == r.phase = PhaseNumber(vector_library, i, vkeys)

\* The vectors vs, at least two, are taken without error from the template of
\* phase i.
ZeroNoiseFrom(vs, i) ==
    /\ Len(vs) >= 2
    /\ \A k \in 1..Len(vs) : vs[k] \in Range(vector_library[i].template)

\* The explained-vector count the records give phase i: 0 when it has none.
CountOf(recs, i) ==
    IF \E k \in DOMAIN recs : VReports(recs[k], i)
    THEN recs[CHOOSE k \in DOMAIN recs : VReports(recs[k], i)].count
    ELSE 0

----------------------------------------------------------------------------
C10_ThresholdMonotone ==
    \A a, b \in Runs : \A p \in (DOMAIN vindexation[a]) \cap (DOMAIN vindexation[b]) :
      (/\ mag_threshold[a] <= mag_threshold[b]
       /\ angle_threshold[a] <= angle_threshold[b]) =>
        \A i \in VPhases :
          CountOf(vindexation[a][p], i) <= CountOf(vindexation[b][p], i)

\* Two calls of which the tighter explains some vectors of a phase and the
\* looser explains more.
C10_Witness ==
    \E p \in (DOMAIN vindexation[1]) \cap (DOMAIN vindexation[2]) :
      /\ mag_threshold[1] <= mag_threshold[2]
      /\ angle_threshold[1] <= angle_threshold[2]
      /\ \E i \in VPhases :
            /\ CountOf(vindexation[1][p], i) > 0
            /\ CountOf(vindexation[1][p], i) < CountOf(vindexation[2][p], i)

----------------------------------------------------------------------------
\* C11: the records map() stored at a position are ranked by descending count
\* of explained vectors and, among equal counts, by ascending accumulated
\* residual: no record precedes one that explains more vectors, or one that
\* explains as many with a smaller residual.
C11_RankedByCountThenResidual ==
    \A c \in Runs : \A p \in DOMAIN vindexation[c] :
      LET recs == vindexation[c][p]
      IN  \A k, l \in DOMAIN recs :
            k < l =>
              /\ recs[k].count >= recs[l].count
              /\ recs[k].count = recs[l].count =>
                    recs[k].residual <= recs[l].residual

\* The later phase of the library is ranked first because it explains more
\* vectors, although its residual is the larger one.
C11_Witness ==
    \E c \in Runs : \E p \in DOMAIN vindexation[c] :
      LET recs == vindexation[c][p]
      IN  /\ Len(recs) = 2
          /\ VReports(recs[1], 2)
          /\ VReports(recs[2], 1)
          /\ recs[1].count > recs[2].count
          /\ recs[1].residual > recs[2].residual

----------------------------------------------------------------------------
\* A call of index_vectors has ended, by a return or by an exception.
VEnded(c) == vpc[c] # "map"

\* Position p holds too few vectors to form a pair.
FewVectors(p) == Len(vectors.data[p]) < 2

\* C12 as stated: when a position holds fewer than two vectors, the call
\* raises no error, a call that has ended has indexed the whole grid and
\* returned it, the result at such a position is empty, and the result at
\* every other position is what the matcher gives for that position's vectors.
C12_FewVectorsAbsorbed ==
    \A c \in Runs :
      (\E p \in VPositions : FewVectors(p)) =>
        /\ vpc[c] # "NameError"
        /\ VEnded(c) => /\ DOMAIN vindexation[c] = VPositions
                        /\ indexation_results[c] # None
        /\ \A p \in DOMAIN vindexation[c] :
              IF FewVectors(p)
              THEN vindexation[c][p] = <<>>
              ELSE vindexation[c][p] = VMappedCall(c, p)

\* C12, the part that holds: in map()'s output the result at a position with
\* fewer than two vectors is empty, and the result at every other position is
\* what the matcher gives for that position's vectors alone.
C12_FewVectorsGiveEmptyResult ==
    \A c \in Runs : \A p \in DOMAIN vindexation[c] :
      IF FewVectors(p)
      THEN vindexation[c][p] = <<>>
      ELSE vindexation[c][p] =
             match_vectors(vectors.data[p], vector_library, mag_threshold[c],
                           angle_threshold[c], vkeys)

\* A call over a grid with a single-vector position has mapped every
\* position, left that position's result empty, and ended in the NameError.
C12_Witness ==
    \E c \in Runs : \E p \in VPositions :
      /\ Len(vectors.data[p]) = 1
      /\ DOMAIN vindexation[c] = VPositions
      /\ vindexation[c][p] = <<>>
      /\ vpc[c] = "NameError"
      /\ indexation_results[c] = None

----------------------------------------------------------------------------
\* C14 as stated: index_vectors raises no error, and once it has ended it has
\* returned a container that holds the result of every probe position and
\* has the navigation shape of the vectors signal.
C14_IndexVectorsReturns ==
    \A c \in Runs :
      /\ vpc[c] # "NameError"
      /\ VEnded(c) => /\ indexation_results[c] # None
                      /\ indexation_results[c].shape = vectors.shape
                      /\ indexation_results[c].data = vindexation[c]

\* A call with two or more vectors at every position and a library that
\* explains them has ended in the NameError, with nothing returned.
C14_Witness ==
    \E c \in Runs :
      /\ \A p \in VPositions : ~FewVectors(p)
      /\ DOMAIN vindexation[c] = VPositions
      /\ \A p \in VPositions : vindexation[c][p] # <<>>
      /\ vpc[c] = "NameError"
      /\ indexation_results[c] = None

----------------------------------------------------------------------------
\* C13: the result correlate returns has, for every navigation axis, the
\* scale, offset, units and name of the signal's navigation axis; nothing is
\* returned before map() has processed the whole grid.
C13_NavigationAxesCopied ==
    /\ matching_results # None =>
          /\ pending = {}
          /\ DOMAIN matches = Positions
          /\ Len(matching_results.axes) = Len(navigation_axes)
          /\ \A i \in 1..Len(navigation_axes) :
                /\ matching_results.axes[i].scale = navigation_axes[i].scale
                /\ matching_results.axes[i].offset = navigation_axes[i].offset
                /\ matching_results.axes[i].units = navigation_axes[i].units
                /\ matching_results.axes[i].name = navigation_axes[i].name
    /\ pc = "done" => matching_results # None

\* A returned result over a calibrated two-dimensional grid whose two axes
\* differ in size.
C13_Witness ==
    /\ pc = "done"
    /\ Len(navigation_axes) = 2
    /\ signal.shape[1] # signal.shape[2]
    /\ navigation_axes[1].scale = 2
    /\ navigation_axes[2].name = "y"
    /\ matching_results.axes[1].scale = 2
    /\ matching_results.axes[2].units = "nm"

----------------------------------------------------------------------------
\* Vocabulary of the properties of two correlate calls.

\* Both calls have returned.
BothReturned == pc = "done" /\ other_pc = "done"

\* The matcher's output for the data of position p of signal sig, under the
\* library, parameters and mask of the calls.
OutputFor(sig, p) ==
    correlate_library(sig.data[p], library, n_largest, maskSig.data[p], keys)

----------------------------------------------------------------------------
\* C16: at a position where the signals of two calls with the same library,
\* parameters and mask hold the same data, the two calls give the same
\* result, whatever the signals hold at the other positions.
C16_PositionIndependence ==
    /\ \A p \in (DOMAIN matches) \cap (DOMAIN other_matches) :
          signal.data[p] = other_signal.data[p] => matches[p] = other_matches[p]
    /\ BothReturned =>
          \A p \in Positions :
            signal.data[p] = other_signal.data[p] =>
              matching_results.data[p] = other_results.data[p]

\* Two returned calls whose signals agree at the second position, where the
\* mask is true, and differ at the first position in data and in result.
C16_Witness ==
    /\ BothReturned
    /\ Positions = {1, 2}
    /\ maskSig.data[1] = 1
    /\ maskSig.data[2] = 1
    /\ signal.data[2] = other_signal.data[2]
    /\ signal.data[1] # other_signal.data[1]
    /\ signal.data[1] # signal.data[2]
    /\ matches[1] # other_matches[1]
    /\ matches[2] = other_matches[2]
    /\ \E k \in DOMAIN matches[2] : matches[2][k] # ZeroRecord

----------------------------------------------------------------------------
\* C17: no step of a correlate, index_peaks or index_vectors call changes the
\* reference libraries, the simulation, or the input signal, its navigation
\* axes, the mask, the magnitudes or the vectors.
C17_InputsUnchanged ==
    [][/\ library' = library
       /\ simulation' = simulation
       /\ vector_library' = vector_library
       /\ signal' = signal
       /\ navigation_axes' = navigation_axes
       /\ mask' = mask
       /\ magnitudes' = magnitudes
       /\ vectors' = vectors]_vars

\* All the calls have ended, each with results of its own: the correlate call
\* returned a scored record at both positions, both index_peaks calls
\* returned, one with a candidate, and the index_vectors calls stored a record.
C17_Witness ==
    /\ pc = "done"
    /\ \A p \in Positions : matching_results.data[p][1] # ZeroRecord
    /\ \A r \in Runs : Returned(r)
    /\ \E r \in Runs : \E i \in DOMAIN indexation[r] :
          Len(EntryHkls(indexation[r][i])) > 0
    /\ \A c \in Runs : vpc[c] = "NameError" /\ DOMAIN vindexation[c] = VPositions
    /\ \E c \in Runs : \E p \in VPositions : vindexation[c][p] # <<>>

----------------------------------------------------------------------------
\* C18 as stated: a correlate call with a configuration error fails at once,
\* before the matcher is called at any position, and returns no result.
C18_ConfigErrorIsFatal ==
    ConfigError =>
      /\ invoked = {}
      /\ pc # "done"
      /\ matching_results = None

\* A call with n_largest = 0 over a non-empty library has run the matcher at
\* every position and returned a result whose entries are all empty.
C18_Witness ==
    /\ n_largest = 0
    /\ library # <<>>
    /\ invoked = Positions
    /\ pc = "done"
    /\ matching_results # None
    /\ \A p \in Positions : matching_results.data[p] = <<>>

----------------------------------------------------------------------------
\* C19 as stated: when correlate is called with mask=None, building the mask
\* raises no error, and the mask built has the navigation shape of the signal
\* and is true at every navigation position.
C19_DefaultMaskCoversGrid ==
    (mask = None /\ pc # "start") =>
      /\ pc # "IndexError"
      /\ maskSig.shape = signal.shape
      /\ DOMAIN maskSig.data = Positions
      /\ \A p \in Positions : maskSig.data[p] = 1

\* C19, the part that holds: over a two-dimensional grid the mask built for
\* mask=None has one entry per navigation position, all true, and the axes
\* of the grid in reverse order.
C19_DefaultMaskOnesOverTwoAxes ==
    (mask = None /\ pc # "start" /\ Len(signal.shape) = 2) =>
      /\ pc # "IndexError"
      /\ maskSig.shape = <<signal.shape[2], signal.shape[1]>>
      /\ DOMAIN maskSig.data = Positions
      /\ \A p \in Positions : maskSig.data[p] = 1

\* A call with mask=None on a signal with one navigation axis has ended in
\* the IndexError of line 94, with no position processed.
C19_Witness ==
    /\ mask = None
    /\ Len(signal.shape) = 1
    /\ pc = "IndexError"
    /\ maskSig = None
    /\ invoked = {}
    /\ matching_results = None

----------------------------------------------------------------------------
\* C20: in every entry index_peaks returns, the Miller indices and the
\* deviations have the same length, deviation k is the deviation of the
\* reflection whose Miller index is at place k, and the candidates follow the
\* order of the simulation.
C20_HklsAndDeviationsAligned ==
    \A r \in Runs :
      Returned(r) =>
        \A i \in DOMAIN indexation[r] :
          LET e == indexation[r][i]
              hkls == EntryHkls(e)
              devs == EntryDeviations(e)
              diff == PercentDeviations(simulation.magnitudes, EntryMagnitude(e))
          IN  /\ Len(hkls) = Len(devs)
              /\ \A k \in DOMAIN hkls :
                    \E j \in DOMAIN simulation.hkls :
                      /\ simulation.hkls[j] = hkls[k]
                      /\ devs[k] = diff[j]
              /\ \A k, l \in DOMAIN hkls :
                    k < l => \E j, m \in DOMAIN simulation.hkls :
                               /\ j < m
                               /\ simulation.hkls[j] = hkls[k]
                               /\ simulation.hkls[m] = hkls[l]

\* A returned entry with two candidates of which the first, in the order of
\* the simulation, deviates more than the second.
C20_Witness ==
    \E r \in Runs : Returned(r) /\
      \E i \in DOMAIN indexation[r] :
        LET e == indexation[r][i]
            devs == EntryDeviations(e)
        IN  /\ Len(EntryHkls(e)) = 2
            /\ EntryHkls(e) = simulation.hkls
            /\ devs[1].num * devs[2].den > devs[2].num * devs[1].den

----------------------------------------------------------------------------
\* Diffraction2D.get_azimuthal_integral1d and get_azimuthal_integral2d.
\* A value is modelled by what the code asks of it: "None" or not, zero or
\* not, assigned or not.

\* wavelength: None, or a float, which may be zero.
Wavelengths == {"None", "0.0", "0.0251"}

\* radial_range: None, or a pair of floats.
RadialRanges == {"None", "set"}

\* unit: "pyxem", or a unit of pyFAI.
Units == {"pyxem", "q_A^-1"}

\* self.unit: None when no unit was set (lines 80-84), or a unit.
SelfUnits == {"None", "2th_deg", "k_A^-1"}

\* Which of mask, affine and center is a BaseSignal.
Iterating == {"none", "mask", "center"}

\* unit is "pyxem" (lines 290, 419), for the interned literal.
UnitIsPyxem(u) == u = "pyxem"

\* if wavelength: (lines 346, 505): None and 0.0 are false.
Truthy(w) == w \notin {"None", "0.0"}

\* Line 294: the flat setup is taken when wavelength is not None.
UsesFlatSetup1d(w) == w # "None"

\* Line 423: the flat setup is taken when wavelength is None.
UsesFlatSetup2d(w) == w = "None"

\* Line 440: no unit, or an angular one, cannot be used with a wavelength.
NoUsableUnit(u) == u \in {"None", "2th_deg", "2th_rad"}

\* units_table (lines 444-450): the pyFAI unit of a pyxem unit.
UnitsTable(u) == IF u \in {"q_nm^-1", "k_nm^-1"} THEN "q_nm^-1" ELSE "q_A^-1"

\* Lines 289-301, the helper returning.  _get_flat_setup and
\* _get_curved_setup are not part of the sources modelled here: the tuple
\* either returns is unpacked into five locals, and the radial_range and
\* pix_range it holds are None or not.
Setup1d ==
    LET f == "integral1d" IN
    /\ apc[f] = "start"
    /\ IF UnitIsPyxem(kwargs.unit)
       THEN /\ pyxem_units' = [pyxem_units EXCEPT ![f] = TRUE]
            /\ unit' = [unit EXCEPT ![f] = IF UsesFlatSetup1d(kwargs.wavelength)
                                           THEN "2th_rad"
                                           ELSE UnitsTable(self_unit)]
            /\ \E rr \in RadialRanges :
                  radial_range' = [radial_range EXCEPT ![f] = rr]
            /\ IF UsesFlatSetup1d(kwargs.wavelength)
               THEN /\ setup' = [setup EXCEPT ![f] = "flat"]
                    /\ \E pr \in RadialRanges :
                          pix_range' = [pix_range EXCEPT ![f] = pr]
                    /\ UNCHANGED scale_factor
               ELSE /\ setup' = [setup EXCEPT ![f] = "curved"]
                    /\ scale_factor' = [scale_factor EXCEPT ![f] = "set"]
                    /\ UNCHANGED pix_range
       ELSE UNCHANGED <<pyxem_units, unit, radial_range, setup, pix_range,
                        scale_factor>>
    /\ apc' = [apc EXCEPT ![f] = "integrate"]
    /\ UNCHANGED <<kwargs, self_unit>>
    /\ UNCHANGED <<tvars, ovars, pvars, vvars, bvars>>

\* Lines 299-300, the helper raising: _get_curved_setup is handed
\* wavelength=None, or a self.unit with which no wavelength can be used, and
\* may fail on it.
Setup1dRaises ==
    LET f == "integral1d" IN
    /\ apc[f] = "start"
    /\ UnitIsPyxem(kwargs.unit)
    /\ ~UsesFlatSetup1d(kwargs.wavelength)
    /\ kwargs.wavelength = "None" \/ NoUsableUnit(self_unit)
    /\ apc' = [apc EXCEPT ![f] = "SetupError"]
    /\ pyxem_units' = [pyxem_units EXCEPT ![f] = TRUE]
    /\ UNCHANGED <<kwargs, self_unit, setup, unit, radial_range, pix_range,
                   scale_factor>>
    /\ UNCHANGED <<tvars, ovars, pvars, vvars, bvars>>

\* The local radial_range after the integration of call f (lines 303-334 and
\* 457-485): taken from the integrator when it is None and either center is
\* a BaseSignal or the fast path is used.
RangeAfterIntegration(f) ==
    IF kwargs.iterating \in {"none", "center"} THEN "set" ELSE radial_range[f]

\* Lines 303-343: the integration is mapped over the signal and the axis to
\* calibrate is picked.
Integrate1d ==
    LET f == "integral1d" IN
    /\ apc[f] = "integrate"
    /\ radial_range' = [radial_range EXCEPT ![f] = RangeAfterIntegration(f)]
    /\ apc' = [apc EXCEPT ![f] = "scale"]
    /\ UNCHANGED <<kwargs, self_unit, setup, pyxem_units, unit, pix_range,
                   scale_factor>>
    /\ UNCHANGED <<tvars, ovars, pvars, vvars, bvars>>

\* How lines 345-358 and 504-518 end in call f: reading radial_range[...] of
\* None raises TypeError, reading a local that was never assigned raises
\* UnboundLocalError, otherwise the axis is calibrated and the call returns.
ScaleOutcome(f) ==
    IF pyxem_units[f]
    THEN IF Truthy(kwargs.wavelength)
         THEN IF radial_range[f] = "None" THEN "TypeError"
              ELSE IF scale_factor[f] = "unbound" THEN "UnboundLocalError"
              ELSE "returned"
         ELSE IF pix_range[f] = "unbound" THEN "UnboundLocalError"
              ELSE IF pix_range[f] = "None" /\ radial_range[f] = "None"
                   THEN "TypeError"
              ELSE "returned"
    ELSE IF radial_range[f] = "None" THEN "TypeError" ELSE "returned"

\* pix_range after lines 349-351 and 508-510: computed when it was None.
PixRangeAfterScale(f) ==
    IF /\ ScaleOutcome(f) = "returned"
       /\ pyxem_units[f]
       /\ ~Truthy(kwargs.wavelength)
    THEN "set"
    ELSE pix_range[f]

\* Lines 345-359.
Scale1d ==
    LET f == "integral1d" IN
    /\ apc[f] = "scale"
    /\ apc' = [apc EXCEPT ![f] = ScaleOutcome(f)]
    /\ pix_range' = [pix_range EXCEPT ![f] = PixRangeAfterScale(f)]
    /\ UNCHANGED <<kwargs, self_unit, setup, pyxem_units, unit, radial_range,
                   scale_factor>>
    /\ UNCHANGED <<tvars, ovars, pvars, vvars, bvars>>

\* Lines 418-455: the setup is made inline.  With a wavelength and no usable
\* self.unit the call prints a message and returns None (lines 440-442).
Setup2d ==
    LET f == "integral2d" IN
    /\ apc[f] = "start"
    /\ IF UnitIsPyxem(kwargs.unit)
       THEN IF UsesFlatSetup2d(kwargs.wavelength)
            THEN /\ setup' = [setup EXCEPT ![f] = "flat"]
                 /\ pix_range' = [pix_range EXCEPT ![f] = radial_range[f]]
                 /\ unit' = [unit EXCEPT ![f] = "2th_rad"]
                 /\ pyxem_units' = [pyxem_units EXCEPT ![f] = TRUE]
                 /\ apc' = [apc EXCEPT ![f] = "integrate"]
                 /\ UNCHANGED scale_factor
            ELSE IF NoUsableUnit(self_unit)
                 THEN /\ pix_range' = [pix_range EXCEPT ![f] = "None"]
                      /\ apc' = [apc EXCEPT ![f] = "returned None"]
                      /\ UNCHANGED <<setup, unit, pyxem_units, scale_factor>>
                 ELSE /\ setup' = [setup EXCEPT ![f] = "curved"]
                      /\ pix_range' = [pix_range EXCEPT ![f] = "None"]
                      /\ scale_factor' = [scale_factor EXCEPT ![f] = "set"]
                      /\ unit' = [unit EXCEPT ![f] = UnitsTable(self_unit)]
                      /\ pyxem_units' = [pyxem_units EXCEPT ![f] = TRUE]
                      /\ apc' = [apc EXCEPT ![f] = "integrate"]
       ELSE /\ apc' = [apc EXCEPT ![f] = "integrate"]
            /\ UNCHANGED <<setup, pix_range, unit, pyxem_units, scale_factor>>
    /\ UNCHANGED <<kwargs, self_unit, radial_range>>
    /\ UNCHANGED <<tvars, ovars, pvars, vvars, bvars>>

\* Lines 457-496.  On the slow path the keyword arguments of the map() call
\* lack a comma (lines 472-473): correctSolidAngle ** integrate2d_kwargs is
\* evaluated and raises TypeError.
Integrate2d ==
    LET f == "integral2d" IN
    /\ apc[f] = "integrate"
    /\ radial_range' = [radial_range EXCEPT ![f] = RangeAfterIntegration(f)]
    /\ apc' = [apc EXCEPT ![f] = IF kwargs.iterating = "none" THEN "scale"
                                 ELSE "TypeError"]
    /\ UNCHANGED <<kwargs, self_unit, setup, pyxem_units, unit, pix_range,
                   scale_factor>>
    /\ UNCHANGED <<tvars, ovars, pvars, vvars, bvars>>

\* Lines 498-520.
Scale2d ==
    LET f == "integral2d" IN
    /\ apc[f] = "scale"
    /\ apc' = [apc EXCEPT ![f] = ScaleOutcome(f)]
    /\ pix_range' = [pix_range EXCEPT ![f] = PixRangeAfterScale(f)]
    /\ UNCHANGED <<kwargs, self_unit, setup, pyxem_units, unit, radial_range,
                   scale_factor>>
    /\ UNCHANGED <<tvars, ovars, pvars, vvars, bvars>>

\* One signal and one set of arguments for both calls.
InitAzimuthal ==
    /\ TemplateIdle
    /\ ProfileIdle
    /\ VectorIdle
    /\ BackgroundIdle
    /\ kwargs \in [unit : Units, wavelength : Wavelengths, radial_range : RadialRanges,
                   iterating : Iterating, inplace : BOOLEAN]
    /\ self_unit \in SelfUnits
    /\ apc = [f \in Integrals |-> "start"]
    /\ setup = [f \in Integrals |-> "none"]
    /\ pyxem_units = [f \in Integrals |-> FALSE]
    /\ unit = [f \in Integrals |-> kwargs.unit]
    /\ radial_range = [f \in Integrals |-> kwargs.radial_range]
    /\ pix_range = [f \in Integrals |-> "unbound"]
    /\ scale_factor = [f \in Integrals |-> "unbound"]

NextAzimuthal ==
    \/ Setup1d
    \/ Setup1dRaises
    \/ Integrate1d
    \/ Scale1d
    \/ Setup2d
    \/ Integrate2d
    \/ Scale2d

SpecAzimuthal == InitAzimuthal /\ [][NextAzimuthal]_vars

----------------------------------------------------------------------------
\* Vocabulary of the properties of the azimuthal integrations.

\* Call f has made its detector setup.
SetupMade(f) == setup[f] # "none"

\* Call f has ended, by a return or by an exception.
AEnded(f) == apc[f] \notin {"start", "integrate", "scale"}

----------------------------------------------------------------------------
\* C21 as stated: with unit "pyxem", get_azimuthal_integral1d makes the flat
\* setup exactly when wavelength is None and the curved setup exactly when a
\* wavelength is given, and so makes the setup get_azimuthal_integral2d makes.
C21_FlatSetupIffNoWavelength ==
    /\ SetupMade("integral1d") =>
          (setup["integral1d"] = "flat" <=> kwargs.wavelength = "None")
    /\ (SetupMade("integral1d") /\ SetupMade("integral2d")) =>
          setup["integral1d"] = setup["integral2d"]

\* Called without a wavelength, get_azimuthal_integral1d has made the curved
\* setup and get_azimuthal_integral2d the flat one.
C21_Witness ==
    /\ kwargs.unit = "pyxem"
    /\ kwargs.wavelength = "None"
    /\ setup["integral1d"] = "curved"
    /\ setup["integral2d"] = "flat"

----------------------------------------------------------------------------
\* C22 as stated: with unit "pyxem", get_azimuthal_integral1d never reads a
\* local that was not assigned, and a call that has ended has returned.
C22_ScaleValuesDefined ==
    kwargs.unit = "pyxem" =>
      /\ apc["integral1d"] # "UnboundLocalError"
      /\ AEnded("integral1d") => apc["integral1d"] = "returned"

\* Called with a wavelength, get_azimuthal_integral1d made the flat setup,
\* integrated with a radial range, and ended reading scale_factor, which the
\* flat setup does not assign.
C22_Witness ==
    /\ kwargs.unit = "pyxem"
    /\ Truthy(kwargs.wavelength)
    /\ setup["integral1d"] = "flat"
    /\ radial_range["integral1d"] = "set"
    /\ scale_factor["integral1d"] = "unbound"
    /\ apc["integral1d"] = "UnboundLocalError"

----------------------------------------------------------------------------
\* Diffraction2D.remove_background (lines 656-692).
\*
\* The background functions (regional_filter, subtract_background_dog,
\* subtract_background_median, subtract_reference, lines 36-56), the helper
\* select_method_from_method_dict (line 32) and filters.rank.mean (line 70)
\* are imported and the design document leaves background subtraction out:
\* the arrays they produce are left open.  The statements of lines 683-692
\* themselves are modelled as written.

MaxPixel == 2

\* The number of pixels of the signal's data, flattened.
NPixels == 2

\* A pixel value, kept exact: num/den, or the inf and nan of numpy.
Pixel(v) == [kind |-> "fin", num |-> v, den |-> 1]

\* The arrays of NPixels non-negative counts.
PixelArrays == [1..NPixels -> {Pixel(v) : v \in 0..MaxPixel}]

\* The keys of method_dict (lines 674-679).
method_dict == {"h-dome", "gaussian_difference", "median", "reference_pattern"}

\* array.max() of an array of finite values (lines 686 and 690).
ArrayMax(d) ==
    CHOOSE x \in Range(d) : \A y \in Range(d) : x.num * y.den >= y.num * x.den

\* x / s of numpy for finite x and s (lines 687 and 690): a zero divisor
\* gives inf, or nan for 0 / 0, with a warning and no exception.
PixelDivide(x, s) ==
    IF s.num # 0 THEN [kind |-> "fin", num |-> x.num * s.den, den |-> x.den * s.num]
    ELSE IF x.num # 0 THEN [kind |-> "inf", num |-> x.num, den |-> 0]
    ELSE [kind |-> "nan", num |-> 0, den |-> 0]

\* array / s, element by element (lines 687 and 690).
ArrayDivide(d, s) == [i \in DOMAIN d |-> PixelDivide(d[i], s)]

\* Two pixel values are the same number (nan equals nothing).
SameValue(a, b) ==
    /\ a.kind = b.kind
    /\ a.kind # "nan"
    /\ a.kind = "fin" => a.num * b.den = b.num * a.den

\* Two arrays hold the same numbers.
SameData(d, e) ==
    /\ DOMAIN d = DOMAIN e
    /\ \A i \in DOMAIN d : SameValue(d[i], e[i])

\* A signal built by map(inplace=False) around an array.
MkSignal(d) == [shape |-> <<Len(d)>>, data |-> d]

\* Line 681: the method's function is looked up; nothing of the signal is
\* touched.
SelectMethod ==
    /\ bpc = "ready"
    /\ bpc' = "selected"
    /\ UNCHANGED <<self_data, data_before, method, bg_subtracted>>
    /\ UNCHANGED <<tvars, ovars, pvars, vvars, avars>>

\* Lines 686-687, method "h-dome" only: self.data is rebound to the data
\* divided by its maximum.
Rescale ==
    /\ bpc = "selected"
    /\ method = "h-dome"
    /\ self_data' = ArrayDivide(self_data, ArrayMax(self_data))
    /\ bpc' = "rescaled"
    /\ UNCHANGED <<data_before, method, bg_subtracted>>
    /\ UNCHANGED <<tvars, ovars, pvars, vvars, avars>>

\* The call is at its self.map(method_function, inplace=False, **kwargs):
\* line 684 for the other methods, line 688 for "h-dome".
AtMap ==
    \/ bpc = "selected" /\ method # "h-dome"
    \/ bpc = "rescaled" /\ method = "h-dome"

\* Lines 684 and 688: map with inplace=False builds a new signal and writes
\* nothing to self.data; the array the background function produces is open.
MapMethod ==
    /\ AtMap
    /\ \E d \in PixelArrays : bg_subtracted' = MkSignal(d)
    /\ bpc' = "mapped"
    /\ UNCHANGED <<self_data, data_before, method>>
    /\ UNCHANGED <<tvars, ovars, pvars, vvars, avars>>

\* Lines 684 and 688: the background function raises (its own keyword
\* arguments are required), and the exception leaves remove_background.
MapMethodRaises ==
    /\ AtMap
    /\ bpc' = "raised"
    /\ UNCHANGED <<self_data, data_before, method, bg_subtracted>>
    /\ UNCHANGED <<tvars, ovars, pvars, vvars, avars>>

\* Lines 689-690, method "h-dome" only: the result is smoothed in place by
\* filters.rank.mean (its output is open) and divided by its maximum.
SmoothAndNormalise ==
    /\ bpc = "mapped"
    /\ method = "h-dome"
    /\ \E d \in PixelArrays :
          bg_subtracted' = MkSignal(ArrayDivide(d, ArrayMax(d)))
    /\ bpc' = "normalised"
    /\ UNCHANGED <<self_data, data_before, method>>
    /\ UNCHANGED <<tvars, ovars, pvars, vvars, avars>>

\* Line 692: return bg_subtracted.
ReturnBackground ==
    /\ \/ bpc = "mapped" /\ method # "h-dome"
       \/ bpc = "normalised"
    /\ bpc' = "returned"
    /\ UNCHANGED <<self_data, data_before, method, bg_subtracted>>
    /\ UNCHANGED <<tvars, ovars, pvars, vvars, avars>>

\* remove_background(method) is called on a signal of counts, with each of
\* the documented methods.
InitBackground ==
    /\ TemplateIdle
    /\ ProfileIdle
    /\ VectorIdle
    /\ AzimuthalIdle
    /\ self_data \in PixelArrays
    /\ data_before = self_data
    /\ method \in method_dict
    /\ bpc = "ready"
    /\ bg_subtracted = None

NextBackground ==
    \/ SelectMethod
    \/ Rescale
    \/ MapMethod
    \/ MapMethodRaises
    \/ SmoothAndNormalise
    \/ ReturnBackground

SpecBackground == InitBackground /\ [][NextBackground]_vars

\* C23: remove_background returns a copy with the background subtracted
\* and leaves the data of the signal it is called on unchanged, for every
\* method in {'h-dome', 'gaussian_difference', 'median',
\* 'reference_pattern'}: once the call has returned, the result is a signal
\* and self.data holds the numbers it held when the call was made.
C23_ReturnsCopyDataUnchanged ==
    bpc = "returned" =>
       /\ bg_subtracted # None
       /\ SameData(self_data, data_before)

\* C23 for the three methods of line 684: self.data is never written, at
\* any point of the call.
C23_OtherMethodsLeaveData ==
    method # "h-dome" => self_data = data_before

\* C23: a call with method "h-dome" on data whose maximum is 2 has
\* returned, and self.data now holds the data divided by 2.
C23_Witness ==
    /\ method = "h-dome"
    /\ bpc = "returned"
    /\ bg_subtracted # None
    /\ ArrayMax(data_before) = Pixel(2)
    /\ self_data = ArrayDivide(data_before, Pixel(2))
    /\ ~SameData(self_data, data_before)

============================================================================
